---- MODULE Spec2Model ----
(***************************************************************************)
(* A model of margarine/parameters.py: the process-wide Parameters store   *)
(* (registration, reload, parse and lookup).                               *)
(*                                                                         *)
(* Python strings that the code takes apart (group names, option strings,  *)
(* keys, environment variable names) are sequences of one-character        *)
(* strings; opaque values (defaults, file values, paths) are TLA+ strings. *)
(* Python values a lookup can return are tagged sequences:                 *)
(*   <<"str", s>>, <<"tuple", a, b>>, <<"None">>.                          *)
(***************************************************************************)
EXTENDS Integers, Sequences, FiniteSets, TLC

----------------------------------------------------------------------------
(* Bounds of the model *)

MaxRegistrations == 2

----------------------------------------------------------------------------
(* Characters and strings *)

LowerCase == <<"a","b","c","d","e","f","g","h","i","j","k","l","m",
               "n","o","p","q","r","s","t","u","v","w","x","y","z">>

UpperCase == <<"A","B","C","D","E","F","G","H","I","J","K","L","M",
               "N","O","P","Q","R","S","T","U","V","W","X","Y","Z">>

\* str.upper() on one character
UpperChar(c) ==
    IF \E i \in 1..Len(LowerCase) : LowerCase[i] = c
    THEN UpperCase[CHOOSE i \in 1..Len(LowerCase) : LowerCase[i] = c]
    ELSE c

\* str.upper()
Upper(s) == [i \in 1..Len(s) |-> UpperChar(s[i])]

\* s[n:] for n = 2
DropTwo(s) == SubSeq(s, 3, Len(s))

\* index of the first separator in s, 0 if there is none
FirstIndex(s, sep) ==
    IF \E i \in 1..Len(s) : s[i] = sep
    THEN CHOOSE i \in 1..Len(s) : s[i] = sep /\ \A j \in 1..(i-1) : s[j] # sep
    ELSE 0

\* s.split(sep, 1)
SplitOnce(s, sep) ==
    LET i == FirstIndex(s, sep) IN
    IF i = 0 THEN <<s>>
    ELSE <<SubSeq(s, 1, i-1), SubSeq(s, i+1, Len(s))>>

\* sep.join(parts) for one or two parts
Join(sep, parts) ==
    IF Len(parts) = 1 THEN parts[1] ELSE parts[1] \o <<sep>> \o parts[2]

DEFAULT  == <<"d","e","f","a","u","l","t">>
GROUP_G  == <<"g">>
GROUP_A_B == <<"a", ".", "b">>                                    \* "a.b"
EXAMPLE  == <<"e","x","a","m","p","l","e">>
DASHES   == <<"-","-">>
PROG     == <<"p","r","o","g">>


\* option strings of the definitions used as inputs
OPT_EXAMPLE         == DASHES \o EXAMPLE                          \* "--example"
OPT_SHORT_E         == <<"-","e">>                                \* "-e"
OPT_DEFAULT_EXAMPLE == DASHES \o DEFAULT \o <<".">> \o EXAMPLE    \* "--default.example"
OPT_HELP            == DASHES \o <<"h","e","l","p">>
OPT_SHORT_H         == <<"-","h">>
OPT_VERSION         == DASHES \o <<"v","e","r","s","i","o","n">>

----------------------------------------------------------------------------
(* Python values *)

PyNone        == <<"None">>
PyStr(s)      == <<"str", s>>
PyTuple(a, b) == <<"tuple", a, b>>

Return(v)  == <<"return">> \o v
Raise(e)   == <<"raise", e>>
NoResult   == <<>>

\* the outcome of a call that raises e, or returns None when e is "none"
Exc(e) == IF e = "none" THEN Return(PyNone) ELSE Raise(e)

\* file_path = None
NoPath == "None"

\* a dict as a function: d.update(e)
DictUpdate(d, e) ==
    [k \in (DOMAIN d) \cup (DOMAIN e) |-> IF k \in DOMAIN e THEN e[k] ELSE d[k]]

EmptyDict == [k \in {} |-> PyNone]

----------------------------------------------------------------------------
(* Parameter definitions: the dicts passed to Parameters(...).             *)
(*   options     the option strings, the first one canonical               *)
(*   hasDefault  "default" in item                                         *)
(*   default     item["default"]                                           *)
(*   only        item.get("only")                                          *)
(*   group       item["group"], <<>> while the key is not set              *)

NoGroup == <<>>

Definition(options, hasDefault, default, only) ==
    [options |-> options, hasDefault |-> hasDefault, default |-> default,
     only |-> only, group |-> NoGroup]

\* (prefix + item["options"][0][2:], (item["default"], item.get("only")))
DefaultsEntryKey(prefix, item) == prefix \o DropTwo(item.options[1])
DefaultsEntryValue(item)       == PyTuple(item.default, item.only)

\* dict([... for item in filter(keep, parameters) if "default" in item]):
\* of two items with one key the later one stays
extract_defaults(parameters, prefix) ==
    LET withDefault == {i \in 1..Len(parameters) : parameters[i].hasDefault}
        keys == {DefaultsEntryKey(prefix, parameters[i]) : i \in withDefault}
        lastOf(k) == CHOOSE i \in withDefault :
                        /\ DefaultsEntryKey(prefix, parameters[i]) = k
                        /\ \A j \in withDefault :
                              DefaultsEntryKey(prefix, parameters[j]) = k => j <= i
    IN [k \in keys |-> DefaultsEntryValue(parameters[lastOf(k)])]

\* prefix = "" ; if name != "default": prefix = name + "."
KeyPrefix(name) == IF name # DEFAULT THEN name \o <<".">> ELSE <<>>

\* parameter.setdefault("group", name) for every parameter
TagGroup(parameters, name) ==
    [i \in 1..Len(parameters) |->
        IF parameters[i].group = NoGroup
        THEN [parameters[i] EXCEPT !.group = name]
        ELSE parameters[i]]

----------------------------------------------------------------------------
(* The shared attribute dict of the store (Parameters.__shared_state).     *)
(*   has                  the attributes that are set                      *)
(*   defaults             self.defaults: key -> (default, only)            *)
(*   parameters           self.parameters: the definition list             *)
(*   option_strings       the option strings self.argument_parser knows    *)
(*   argument_groups      the argument groups added to the parser          *)
(*   configuration_files  self._configuration_files, in insertion order:   *)
(*                        a sequence of [path, handle, read]; read is what *)
(*                        the last SafeConfigParser.read of the path found *)
(*                        (the dict itself holds only path and handle)     *)
(*   parsed               self.parsed                                      *)
(* self.arguments is never assigned by the code, so it is never in has.    *)

EmptyState ==
    [has |-> {}, defaults |-> EmptyDict, parameters |-> <<>>,
     option_strings |-> {}, argument_groups |-> <<>>,
     configuration_files |-> <<>>, parsed |-> FALSE]

HasAttr(st, attr) == attr \in st.has

\* getattr(self, "parsed", False)
ParsedOrFalse(st) == IF HasAttr(st, "parsed") THEN st.parsed ELSE FALSE

----------------------------------------------------------------------------
(* Configuration files.  A file on disk is [exists, content], content a    *)
(* set of <<section, option, value>>.  A handle is [t, content]:           *)
(* t = "parser" for a SafeConfigParser, t = "None" for None.               *)

HandleNone        == [t |-> "None", content |-> {}]
HandleParser(c)   == [t |-> "parser", content |-> c]

Paths(files) == {files[i].path : i \in 1..Len(files)}

\* files[path] = handle: an existing key keeps its place, a new one is last
DictSet(files, path, handle, read) ==
    IF path \in Paths(files)
    THEN [i \in 1..Len(files) |->
            IF files[i].path = path
            THEN [path |-> path, handle |-> handle, read |-> read]
            ELSE files[i]]
    ELSE Append(files, [path |-> path, handle |-> handle, read |-> read])

\* SafeConfigParser().read(file_path): a missing file reads as no sections
ReadFile(disk, file_path) ==
    IF disk[file_path].exists THEN disk[file_path].content ELSE {}

\* the value the last statement of _create_configuration_parser hands back:
\* the method has no return statement
CreateParserReturnValue(parser) == HandleNone

\* _create_configuration_parser: stores the loaded parser under file_path and
\* returns None
create_configuration_parser(files, disk, file_path) ==
    LET parser == HandleParser(ReadFile(disk, file_path)) IN
    [files |-> DictSet(files, file_path, parser, parser.content),
     ret   |-> CreateParserReturnValue(parser)]

\* reinitialize(file_path) for file_path is not None:
\* self._configuration_files[file_path] = self._create_configuration_parser(file_path)
ReinitializeOne(files, disk, file_path) ==
    LET made == create_configuration_parser(files, disk, file_path) IN
    DictSet(made.files, file_path, made.ret, ReadFile(disk, file_path))

RECURSIVE ReinitializeAll(_, _, _, _)
\* for file_path in self._configuration_files.keys(): self.reinitialize(file_path)
ReinitializeAll(files, disk, keys, i) ==
    IF i > Len(keys) THEN files
    ELSE ReinitializeAll(ReinitializeOne(files, disk, keys[i]), disk, keys, i + 1)

reinitialize(files, disk, file_path) ==
    IF file_path # NoPath
    THEN ReinitializeOne(files, disk, file_path)
    ELSE ReinitializeAll(files, disk, [i \in 1..Len(files) |-> files[i].path], 1)

----------------------------------------------------------------------------
(* The argument parser *)

\* argparse.ArgumentParser() with add_help, then add_argument("--version")
NewParserOptionStrings == {OPT_SHORT_H, OPT_HELP, OPT_VERSION}

\* the definitions that reach the parser:
\* parameter.get("only") in [ "arguments", None ]
ForArguments(parameters) ==
    SelectSeq(parameters, LAMBDA item : item.only \in {"arguments", "None"})

\* the option strings of a definition of a group other than "default":
\* del options["args"][1:], and the result of
\* options["args"][0].replace("--", "--" + name + "-") is not assigned
GroupOptionStrings(args, name) == <<args[1]>>

Range(seq) == {seq[i] : i \in 1..Len(seq)}

RECURSIVE AddArguments(_, _, _, _)
\* the loop of _add_argument_parameters from item i on; raises the parser's
\* errors: a keyword argparse does not know, an option string already taken
AddArguments(st, name, items, i) ==
    IF i > Len(items) THEN [st |-> st, exc |-> "none"]
    ELSE
      LET item    == items[i]
          grouped == name # DEFAULT
          args    == IF grouped THEN GroupOptionStrings(item.options, name)
                     ELSE item.options
          st1     == IF grouped
                     THEN [st EXCEPT !.has = @ \cup {"group_parsers"},
                                     !.argument_groups = Append(@, name)]
                     ELSE st
      IN
      IF item.only # "None"
      THEN [st |-> st1, exc |-> "TypeError"]
      ELSE IF Range(args) \cap st1.option_strings # {}
      THEN [st |-> st1, exc |-> "ArgumentError"]
      ELSE AddArguments([st1 EXCEPT !.option_strings = @ \cup Range(args)],
                        name, items, i + 1)

add_argument_parameters(st, name, parameters) ==
    LET st1 == IF HasAttr(st, "argument_parser") THEN st
               ELSE [st EXCEPT !.has = @ \cup {"argument_parser"},
                               !.option_strings = NewParserOptionStrings]
    IN AddArguments(st1, name, ForArguments(parameters), 1)

\* argument_parser.parse_args(): an option string the parser does not know
\* ends the process
StrictParseFails(st, argv) ==
    \E i \in 1..Len(argv) : argv[i].flag \notin st.option_strings

----------------------------------------------------------------------------
(* Parameters.parse and Parameters.__init__ as functions of the attribute  *)
(* dict: each gives the dict it leaves behind and the exception it raises  *)
(* ("none" when it returns).                                               *)

AllComponents == {"cli", "file", "environment"}

\* parse with a lenient CLI parse marking the store parsed too
parseMarksLenient(st, components, only_known, file_path, disk, argv) ==
    LET strict == "cli" \in components /\ ~only_known
        st1    == IF "cli" \in components
                  THEN [st EXCEPT !.has = @ \cup {"parsed"}, !.parsed = TRUE]
                  ELSE st
    IN
    IF strict /\ StrictParseFails(st1, argv)
    THEN [st |-> st1, exc |-> "SystemExit"]
    ELSE IF "file" \in components
    THEN [st |-> [st1 EXCEPT !.configuration_files =
                                reinitialize(@, disk, file_path)],
          exc |-> "none"]
    ELSE [st |-> st1, exc |-> "none"]

parse(st, components, only_known, file_path, disk, argv) ==
    LET strict == "cli" \in components /\ ~only_known
        st1    == IF strict
                  THEN [st EXCEPT !.has = @ \cup {"parsed"}, !.parsed = TRUE]
                  ELSE st
    IN
    IF strict /\ StrictParseFails(st1, argv)
    THEN [st |-> st1, exc |-> "SystemExit"]
    ELSE IF "file" \in components
    THEN [st |-> [st1 EXCEPT !.configuration_files =
                                reinitialize(@, disk, file_path)],
          exc |-> "none"]
    ELSE [st |-> st1, exc |-> "none"]

\* if hasattr(self, "parameters"): self.parameters += parameters
\* else: self.parameters = []
ExtendParameters(st, parameters) ==
    IF HasAttr(st, "parameters")
    THEN [st EXCEPT !.parameters = @ \o parameters]
    ELSE [st EXCEPT !.has = @ \cup {"parameters"}, !.parameters = <<>>]

\* init without the assertion of line 134
initUnchecked(st, name, file_path, parameters, disk, argv) ==
    LET st1    == [st EXCEPT
                     !.has = @ \cup {"defaults"},
                     !.defaults = DictUpdate(@,
                         extract_defaults(parameters, KeyPrefix(name)))]
        tagged == TagGroup(parameters, name)
        st2    == ExtendParameters(st1, tagged)
        added  == add_argument_parameters(st2, name, tagged)
        st3    == [added.st EXCEPT !.has = @ \cup {"_configuration_files"}]
    IN
    IF added.exc # "none" THEN added
    ELSE IF file_path \notin Paths(st3.configuration_files)
    THEN parse(st3, {"file"}, FALSE, file_path, disk, argv)
    ELSE [st |-> st3, exc |-> "none"]

init(st, name, file_path, parameters, disk, argv) ==
    IF ParsedOrFalse(st)
    THEN [st |-> st, exc |-> "AssertionError"]
    ELSE
      LET st1    == [st EXCEPT
                       !.has = @ \cup {"defaults"},
                       !.defaults = DictUpdate(@,
                           extract_defaults(parameters, KeyPrefix(name)))]
          tagged == TagGroup(parameters, name)
          st2    == ExtendParameters(st1, tagged)
          added  == add_argument_parameters(st2, name, tagged)
          st3    == [added.st EXCEPT !.has = @ \cup {"_configuration_files"}]
      IN
      IF added.exc # "none" THEN added
      ELSE IF file_path \notin Paths(st3.configuration_files)
      THEN parse(st3, {"file"}, FALSE, file_path, disk, argv)
      ELSE [st |-> st3, exc |-> "none"]

----------------------------------------------------------------------------
(* The mapping view and the lookup *)

\* iterkeys: item["options"][0][2:], with item["group"] put in front of it
\* when the group is not "default"
KeyOf(item) ==
    IF item.group # DEFAULT
    THEN item.group \o DropTwo(item.options[1])
    ELSE DropTwo(item.options[1])

keys(st) == [i \in 1..Len(st.parameters) |-> KeyOf(st.parameters[i])]

\* __contains__
contains(st, key) == key \in Range(keys(st))

\* __len__
len(st) == Len(st.parameters)

\* "{0}_{1}_{2}".format(sys.argv[0].upper(), *[ _.upper() for _ in parts ]);
\* called with two parts
EnvironmentName(prog, parts) ==
    Upper(prog) \o <<"_">> \o Upper(parts[1]) \o <<"_">> \o Upper(parts[2])

Unset == "unset"

\* os.environ.get(name, default)
EnvironGet(env, name, default) ==
    IF name \in DOMAIN env /\ env[name] # Unset THEN PyStr(env[name]) ELSE default

\* what "for configuration_file in self._configuration_files" runs over:
\* the keys of the dict, which are the paths (strings)
IterateConfigurationFiles(files) ==
    [i \in 1..Len(files) |-> [t |-> "str", content |-> {}]]

\* ElementGet with the lookup's except clause catching every error of get
ElementGetCatchAll(element, parts) ==
    IF element.t = "parser"
       /\ \E e \in element.content : e[1] = parts[1] /\ e[2] = parts[2]
    THEN Return(PyStr((CHOOSE e \in element.content :
                          e[1] = parts[1] /\ e[2] = parts[2])[3]))
    ELSE Raise("NoOptionError")

\* configuration_file.get(section, option): a parser gives the value or
\* raises NoSectionError/NoOptionError; a str and None have no get
ElementGet(element, parts) ==
    IF element.t # "parser" THEN Raise("AttributeError")
    ELSE IF \E e \in element.content : e[1] = parts[1] /\ e[2] = parts[2]
    THEN Return(PyStr((CHOOSE e \in element.content :
                          e[1] = parts[1] /\ e[2] = parts[2])[3]))
    ELSE Raise("NoOptionError")

RECURSIVE FileLoop(_, _, _, _, _)
\* the loop over the configuration files from element i on: the first value
\* that differs from default ends it; only the two parser errors are caught
FileLoop(elements, i, parts, default, value) ==
    IF i > Len(elements) THEN Return(value)
    ELSE
      LET got == ElementGet(elements[i], parts) IN
      IF got = Raise("NoOptionError")
      THEN FileLoop(elements, i + 1, parts, default, value)
      ELSE IF got[1] = "raise" THEN got
      ELSE IF Tail(got) # default THEN Return(Tail(got))
      ELSE FileLoop(elements, i + 1, parts, default, value)

\* some of the attributes hasattr finds on an argparse.ArgumentParser
ParserAttributes ==
    { <<"p","r","o","g">>, <<"u","s","a","g","e">>, <<"e","r","r","o","r">>,
      <<"e","x","i","t">> }

\* __getitem__ from "value = None" on (lines 307-337)
Resolve(st, key, env, prog) ==
    LET default == IF key \in DOMAIN st.defaults THEN st.defaults[key] ELSE PyNone
        parts   == SplitOnce(key, ".")
    IN
    IF Len(parts) < 2 THEN Raise("IndexError")
    ELSE
      LET value  == EnvironGet(env, EnvironmentName(prog, parts), default)
          filed  == FileLoop(IterateConfigurationFiles(st.configuration_files),
                             1, parts, default, value)
      IN
      IF filed[1] = "raise" THEN filed
      ELSE IF Join("-", parts) \in ParserAttributes
           THEN \* getattr(self.arguments, argument_key): never assigned
                Raise("AttributeError")
           ELSE filed

\* getitem with the lazy parse returning right after it has parsed
getitemReturnAfterParse(st, key, env, prog, disk, argv) ==
    IF ~contains(st, key) THEN [st |-> st, res |-> Raise("KeyError")]
    ELSE IF ~ParsedOrFalse(st)
    THEN LET parsed == parse(st, AllComponents, FALSE, NoPath, disk, argv) IN
         [st |-> parsed.st, res |-> Exc(parsed.exc)]
    ELSE [st |-> st, res |-> Resolve(st, key, env, prog)]

\* getitem with the lazy parse placed before the check of the key
getitemParseFirst(st, key, env, prog, disk, argv) ==
    LET parsed == IF ParsedOrFalse(st) THEN [st |-> st, exc |-> "none"]
                  ELSE parse(st, AllComponents, FALSE, NoPath, disk, argv)
    IN
    IF parsed.exc # "none"
    THEN [st |-> parsed.st, res |-> Raise(parsed.exc)]
    ELSE IF ~contains(parsed.st, key)
    THEN [st |-> parsed.st, res |-> Raise("KeyError")]
    ELSE [st |-> parsed.st, res |-> Resolve(parsed.st, key, env, prog)]

\* __getitem__: the dict it leaves behind and what it returns or raises
getitem(st, key, env, prog, disk, argv) ==
    IF ~contains(st, key) THEN [st |-> st, res |-> Raise("KeyError")]
    ELSE IF ~HasAttr(st, "parsed")
    THEN [st |-> st, res |-> Raise("AttributeError")]
    ELSE
      LET parsed == IF st.parsed THEN [st |-> st, exc |-> "none"]
                    ELSE parse(st, AllComponents, FALSE, NoPath, disk, argv)
      IN
      IF parsed.exc # "none"
      THEN [st |-> parsed.st, res |-> Raise(parsed.exc)]
      ELSE [st |-> parsed.st, res |-> Resolve(parsed.st, key, env, prog)]

\* get(key, default): if key in self: return self[key]; return default
get(st, key, default, env, prog, disk, argv) ==
    IF contains(st, key) THEN getitem(st, key, env, prog, disk, argv)
    ELSE [st |-> st, res |-> Return(default)]

----------------------------------------------------------------------------
(* Inputs *)

FILE_A == "/etc/a.conf"
FILE_B == "/etc/b.conf"

\* the reinitialize calls of the process: the file_path of each
ReinitializeCalls == {NoPath, FILE_A}

\* { "options": [ "--example", "-e" ], "default": "foo" }
D_EXAMPLE     == Definition(<<OPT_EXAMPLE, OPT_SHORT_E>>, TRUE, "foo", "None")
\* { "options": [ "--example" ] }
D_NO_DEFAULT  == Definition(<<OPT_EXAMPLE>>, FALSE, "", "None")
\* { "options": [ "--default.example" ], "default": "foo" }
D_DOTTED      == Definition(<<OPT_DEFAULT_EXAMPLE>>, TRUE, "foo", "None")
\* { "options": [ "--default.example" ], "default": "new" }
D_DOTTED_NEW  == Definition(<<OPT_DEFAULT_EXAMPLE>>, TRUE, "new", "None")

\* the constructor calls of the process: <<name, file_path, parameters>>
Registrations ==
    { <<DEFAULT, NoPath, <<>>>>,
      <<DEFAULT, NoPath, <<D_EXAMPLE>>>>,
      <<GROUP_G, NoPath, <<D_EXAMPLE>>>>,
      <<GROUP_G, FILE_B, <<D_NO_DEFAULT>>>>,
      <<DEFAULT, NoPath, <<D_DOTTED>>>>,
      <<DEFAULT, FILE_A, <<D_DOTTED>>>>,
      <<DEFAULT, FILE_B, <<D_DOTTED>>>>,
      <<DEFAULT, NoPath, <<D_DOTTED_NEW>>>>,
      <<GROUP_A_B, NoPath, <<>>>> }

KEY_EXAMPLE         == EXAMPLE                              \* "example"
KEY_DEFAULT_EXAMPLE == DEFAULT \o <<".">> \o EXAMPLE        \* "default.example"

QueryKeys == {KEY_EXAMPLE, KEY_DEFAULT_EXAMPLE}

\* the default passed to get(key, default)
FALLBACK == PyStr("fallback")

ENV_DEFAULT_EXAMPLE == EnvironmentName(PROG, <<DEFAULT, EXAMPLE>>)

EnvNames  == {ENV_DEFAULT_EXAMPLE}
EnvValues == {"bar"}

\* the contents a configuration file is written with
CONTENT_A == {<<DEFAULT, EXAMPLE, "fileA">>, <<GROUP_G, EXAMPLE, "fileA">>}
CONTENT_B == {<<DEFAULT, EXAMPLE, "fileB">>, <<GROUP_G, EXAMPLE, "fileB">>}

\* the writes of configuration files that happen while the process runs
FileWrites == {<<FILE_A, CONTENT_A>>}

\* the argument vectors of the process, sys.argv[1:], as --flag=value tokens
ARGV_NONE    == <<>>
ARGV_DOTTED  == <<[flag |-> OPT_DEFAULT_EXAMPLE, value |-> "baz"]>>

ArgumentVectors == {ARGV_NONE, ARGV_DOTTED}

\* the parse calls of the process: <<components, only_known, file_path>>
ParseCalls ==
    { <<AllComponents, FALSE, NoPath>>,
      <<{"cli"}, TRUE, NoPath>>,
      <<{"cli"}, FALSE, NoPath>>,
      <<{"file"}, FALSE, NoPath>>,
      <<{"file"}, FALSE, FILE_A>>,
      <<{"environment"}, FALSE, NoPath>> }

----------------------------------------------------------------------------
(* The process *)

VARIABLES
    heap,          \* the attribute dicts: dict id -> attribute dict
    objs,          \* the Parameters objects constructed: the id of the dict
                   \* each one has as its __dict__
    registered,    \* every definition passed to a constructor call so far,
                   \* in call order, as [name, item]
    calls,         \* the number of constructor calls so far
    env,           \* os.environ
    disk,          \* the configuration files on disk
    argv,          \* sys.argv[1:]
    alive,         \* FALSE once the parser has ended the process
    last           \* the last call: [op, key, res, prevres, args]

vars == <<heap, objs, registered, calls, env, disk, argv, alive, last>>

\* the dict id of Parameters.__shared_state (line 83)
SharedState == 0

DictIds == 0..MaxRegistrations

\* BindDict with every object keeping a dict of its own
BindDictOwn(constructed) == Len(constructed) + 1

\* self.__dict__ = self.__shared_state: the dict the object being
\* constructed gets as its __dict__
BindDict(constructed) == SharedState

NoArgs == <<>>

Call(op, key, res, prevres) ==
    [op |-> op, key |-> key, res |-> res, prevres |-> prevres, args |-> NoArgs]

\* a call recorded with the arguments it was made with
CallArgs(op, args, res) ==
    [op |-> op, key |-> <<>>, res |-> res, prevres |-> NoResult, args |-> args]

Init ==
    /\ heap = [d \in DictIds |-> EmptyState]
    /\ objs = <<>>
    /\ registered = <<>>
    /\ calls = 0
    /\ env = [n \in EnvNames |-> Unset]
    /\ disk = [p \in {FILE_A, FILE_B} |->
                 IF p = FILE_B THEN [exists |-> TRUE, content |-> CONTENT_B]
                 ELSE [exists |-> FALSE, content |-> {}]]
    /\ argv \in ArgumentVectors
    /\ alive = TRUE
    /\ last = Call("start", <<>>, NoResult, NoResult)

\* Parameters(name, file_path, parameters)
Construct(name, file_path, parameters) ==
    /\ alive
    /\ calls < MaxRegistrations
    /\ LET d == BindDict(objs)
           r == init(heap[d], name, file_path, parameters, disk, argv)
       IN /\ heap' = [heap EXCEPT ![d] = r.st]
          /\ objs' = IF r.exc = "none" THEN Append(objs, d) ELSE objs
          /\ last' = CallArgs("init", [name |-> name, file_path |-> file_path],
                               Exc(r.exc))
    /\ registered' = registered \o
          [i \in 1..Len(parameters) |-> [name |-> name, item |-> parameters[i]]]
    /\ calls' = calls + 1
    /\ UNCHANGED <<env, disk, argv, alive>>

\* self.reinitialize(file_path)
Reinitialize(self, file_path) ==
    /\ alive
    /\ heap' = [heap EXCEPT ![objs[self]].configuration_files =
                               reinitialize(@, disk, file_path)]
    /\ last' = CallArgs("reinitialize", [file_path |-> file_path],
                         Return(PyNone))
    /\ UNCHANGED <<objs, registered, calls, env, disk, argv, alive>>

\* self.parse(components, only_known, file_path)
Parse(self, components, only_known, file_path) ==
    /\ alive
    /\ LET r == parse(heap[objs[self]], components, only_known, file_path,
                      disk, argv)
       IN /\ heap' = [heap EXCEPT ![objs[self]] = r.st]
          /\ alive' = (r.exc # "SystemExit")
          /\ last' = CallArgs("parse",
                               [strict |-> "cli" \in components /\ ~only_known],
                               Exc(r.exc))
    /\ UNCHANGED <<objs, registered, calls, env, disk, argv>>

\* self[key]
GetItem(self, key) ==
    /\ alive
    /\ LET r == getitem(heap[objs[self]], key, env, PROG, disk, argv)
       IN /\ heap' = [heap EXCEPT ![objs[self]] = r.st]
          /\ alive' = (r.res # Raise("SystemExit"))
          /\ last' = Call("getitem", key, r.res,
                          IF last.op = "getitem" /\ last.key = key
                          THEN last.res ELSE NoResult)
    /\ UNCHANGED <<objs, registered, calls, env, disk, argv>>

\* self.get(key, default)
Get(self, key, default) ==
    /\ alive
    /\ LET r == get(heap[objs[self]], key, default, env, PROG, disk, argv)
       IN /\ heap' = [heap EXCEPT ![objs[self]] = r.st]
          /\ alive' = (r.res # Raise("SystemExit"))
          /\ last' = Call("get", key, r.res, NoResult)
    /\ UNCHANGED <<objs, registered, calls, env, disk, argv>>

\* the environment of the process changes: os.environ[name] = value
PutEnv(name, value) ==
    /\ alive
    /\ env[name] # value
    /\ env' = [env EXCEPT ![name] = value]
    /\ last' = Call("putenv", <<>>, NoResult, NoResult)
    /\ UNCHANGED <<heap, objs, registered, calls, disk, argv, alive>>

\* a configuration file is written on disk
WriteFile(path, content) ==
    /\ alive
    /\ disk[path] # [exists |-> TRUE, content |-> content]
    /\ disk' = [disk EXCEPT ![path] = [exists |-> TRUE, content |-> content]]
    /\ last' = Call("write", <<>>, NoResult, NoResult)
    /\ UNCHANGED <<heap, objs, registered, calls, env, argv, alive>>

Next ==
    \/ \E call \in Registrations : Construct(call[1], call[2], call[3])
    \/ \E self \in 1..Len(objs), file_path \in ReinitializeCalls :
          Reinitialize(self, file_path)
    \/ \E self \in 1..Len(objs), call \in ParseCalls :
          Parse(self, call[1], call[2], call[3])
    \/ \E self \in 1..Len(objs), key \in QueryKeys : GetItem(self, key)
    \/ \E self \in 1..Len(objs), key \in QueryKeys : Get(self, key, FALLBACK)
    \/ \E name \in EnvNames, value \in EnvValues \cup {Unset} : PutEnv(name, value)
    \/ \E write \in FileWrites : WriteFile(write[1], write[2])

Spec == Init /\ [][Next]_vars

----------------------------------------------------------------------------
(* The vocabulary of the properties *)

\* the store every object of the process is meant to be a view of
Store == heap[SharedState]

\* the key of a definition registered under group name: "group.option",
\* the bare option name for the default group
DefinitionKey(name, item) ==
    IF name = DEFAULT THEN DropTwo(item.options[1])
    ELSE name \o <<".">> \o DropTwo(item.options[1])

\* <<group, option>> of a key: split on the first separator, the default
\* group when there is none
GroupAndOption(key) ==
    IF FirstIndex(key, ".") = 0 THEN <<DEFAULT, key>> ELSE SplitOnce(key, ".")

\* the registrations that declare a default for key
Declaring(key) ==
    {i \in 1..Len(registered) :
        /\ registered[i].item.hasDefault
        /\ DefinitionKey(registered[i].name, registered[i].item) = key}

HasDeclaredDefault(key) == Declaring(key) # {}

\* the default most recently declared for key
DeclaredDefault(key) ==
    registered[CHOOSE i \in Declaring(key) : \A j \in Declaring(key) : j <= i]
        .item.default

\* the environment variable of key: PROGRAM_GROUP_OPTION
EnvironmentVariable(key) == EnvironmentName(PROG, GroupAndOption(key))

EnvironmentSupplies(key) ==
    /\ EnvironmentVariable(key) \in DOMAIN env
    /\ env[EnvironmentVariable(key)] # Unset

EnvironmentValue(key) == env[EnvironmentVariable(key)]

\* the tracked files, in registration order, whose last read found key
FilesSupplying(key) ==
    LET files == Store.configuration_files IN
    SelectSeq(files, LAMBDA f :
        \E e \in f.read : <<e[1], e[2]>> = GroupAndOption(key))

FileValueIn(file, key) ==
    (CHOOSE e \in file.read : <<e[1], e[2]>> = GroupAndOption(key))[3]

FileSupplies(key) == FilesSupplying(key) # <<>>

\* the value of the first tracked file that has one
FileValue(key) == FileValueIn(FilesSupplying(key)[1], key)

\* the flag of key on the command line: an option string of a definition
\* registered for it
FlagsOf(key) ==
    UNION {Range(registered[i].item.options) :
             i \in {j \in 1..Len(registered) :
                      DefinitionKey(registered[j].name, registered[j].item) = key}}

CliSupplies(key) == \E i \in 1..Len(argv) : argv[i].flag \in FlagsOf(key)

CliValue(key) ==
    argv[CHOOSE i \in 1..Len(argv) : argv[i].flag \in FlagsOf(key)].value

\* the command line has been parsed strictly
CliParsed == HasAttr(Store, "parsed") /\ Store.parsed

\* every constructor call so far has returned
AllReturned == Len(objs) = calls

\* the last call was a lookup of a key of the definition list, after
\* registrations that all returned
LookedUp == last.op = "getitem" /\ contains(Store, last.key) /\ AllReturned

Returned(value) == last.res = Return(PyStr(value))

----------------------------------------------------------------------------
(* Properties *)

\* C1: a lookup of a key that has a declared default and no value from the
\* environment, a tracked file or the command line returns the declared
\* default value itself (for the lookups that return)
C1_ResolveReturnsDeclaredDefault ==
    ( /\ LookedUp
      /\ HasDeclaredDefault(last.key)
      /\ ~EnvironmentSupplies(last.key)
      /\ ~FileSupplies(last.key)
      /\ ~CliSupplies(last.key)
      /\ last.res[1] = "return" )
    => Returned(DeclaredDefault(last.key))

\* C2: with pairwise distinct values in the declared default, a tracked
\* file, the environment and the parsed command line, a lookup returns the
\* command line's value
C2_CliValueWins ==
    ( /\ LookedUp
      /\ CliParsed
      /\ HasDeclaredDefault(last.key)
      /\ FileSupplies(last.key)
      /\ EnvironmentSupplies(last.key)
      /\ CliSupplies(last.key)
      /\ Cardinality({DeclaredDefault(last.key), FileValue(last.key),
                      EnvironmentValue(last.key), CliValue(last.key)}) = 4 )
    => Returned(CliValue(last.key))

\* C3: with --example (default "foo") registered and listed in the default
\* group, PROG_DEFAULT_EXAMPLE=bar, no configuration file and no argument,
\* the lookup of "default.example" returns "bar"
C3_DefaultGroupEnvironmentExample ==
    ( /\ last.op = "getitem"
      /\ last.key = KEY_DEFAULT_EXAMPLE
      /\ \E i \in 1..Len(registered) :
            registered[i] = [name |-> DEFAULT, item |-> D_EXAMPLE]
      /\ \E i \in 1..Len(Store.parameters) :
            Store.parameters[i] = [D_EXAMPLE EXCEPT !.group = DEFAULT]
      /\ AllReturned
      /\ CliParsed
      /\ env[ENV_DEFAULT_EXAMPLE] = "bar"
      /\ Store.configuration_files = <<>>
      /\ argv = <<>> )
    => Returned("bar")


\* the case of C4 and C5: a lookup of a key with a declared default, a
\* value in a tracked file and a value in the environment, all distinct,
\* and none on the command line
DefaultFileEnvironment(key) ==
    /\ HasDeclaredDefault(key)
    /\ FileSupplies(key)
    /\ EnvironmentSupplies(key)
    /\ ~CliSupplies(key)
    /\ Cardinality({DeclaredDefault(key), FileValue(key),
                    EnvironmentValue(key)}) = 3

C5_FileValueBeatsEnvironment ==
    ( /\ LookedUp
      /\ CliParsed
      /\ ~CliSupplies(last.key)
      /\ HasDeclaredDefault(last.key)
      /\ FileSupplies(last.key)
      /\ FileValue(last.key) # DeclaredDefault(last.key) )
    => Returned(FileValue(last.key))

\* C6: with two tracked files that both have a value differing from the
\* default and no CLI override, a lookup returns the value of the file
\* registered first
C6_FirstFileWins ==
    ( /\ LookedUp
      /\ CliParsed
      /\ ~CliSupplies(last.key)
      /\ HasDeclaredDefault(last.key)
      /\ Len(FilesSupplying(last.key)) = 2
      /\ \A i \in 1..2 :
            FileValueIn(FilesSupplying(last.key)[i], last.key)
                # DeclaredDefault(last.key) )
    => Returned(FileValueIn(FilesSupplying(last.key)[1], last.key))

ListedAsRegistered(st) ==
    /\ Len(st.parameters) = Len(registered)
    /\ \A i \in 1..Len(st.parameters) :
          st.parameters[i] =
              [registered[i].item EXCEPT !.group = registered[i].name]

\* C8: keys() has one entry per definition registered, in registration
\* order, and len(store) is the number of definitions registered
C8_KeysListEveryDefinition ==
    (objs # <<>> /\ AllReturned) =>
        /\ len(Store) = Len(registered)
        /\ Len(keys(Store)) = Len(registered)
        /\ ListedAsRegistered(Store)

\* what an object observes of the store
View(o) ==
    LET st == heap[objs[o]] IN
    [has |-> st.has, defaults |-> st.defaults, parameters |-> st.parameters,
     configuration_files |-> st.configuration_files, parsed |-> st.parsed]

\* C9: every object constructed observes the same defaults, definition
\* list, tracked files and parsed flag
C9_SharedState ==
    \A o1 \in 1..Len(objs), o2 \in 1..Len(objs) : View(o1) = View(o2)

C9_Witness ==
    /\ Len(objs) >= 2
    /\ Cardinality(DOMAIN View(1).defaults) >= 2
    /\ View(1).parameters # <<>>
    /\ View(2).configuration_files # <<>>

\* C10: the known key of every listed definition is "group.option" (the bare
\* option for the default group), and the defaults key of every listed
\* definition that declares a default is a known key
C10_KnownKeysAreGroupDotOption ==
    AllReturned => \A i \in 1..Len(Store.parameters) :
        LET item == Store.parameters[i] IN
        /\ keys(Store)[i] = DefinitionKey(item.group, item)
        /\ item.hasDefault =>
              /\ DefaultsEntryKey(KeyPrefix(item.group), item) \in DOMAIN Store.defaults
              /\ contains(Store, DefaultsEntryKey(KeyPrefix(item.group), item))

\* C11: a lookup of a key that is not a known key raises KeyError, get of
\* such a key returns the default passed to it, and neither changes the
\* store (no parse runs: the parsed flag, the tracked files, the defaults and
\* the definitions stay as they were)
C11_UnknownKeyLookup ==
    [][ (last'.op \in {"getitem", "get"} /\ ~contains(Store, last'.key)) =>
            /\ last'.res = IF last'.op = "getitem" THEN Raise("KeyError")
                           ELSE Return(FALLBACK)
            /\ heap' = heap
            /\ alive' = alive ]_vars

C11_Witness ==
    /\ last.op = "getitem"
    /\ last.res = Raise("KeyError")
    /\ AllReturned
    /\ Store.parameters # <<>>
    /\ ~contains(Store, last.key)
    /\ ~ParsedOrFalse(Store)

\* the group name holds the key separator
HasSeparator(name) == \E i \in 1..Len(name) : name[i] = "."

\* C12: a registration whose group name holds the separator '.' raises and
\* records nothing: the store (defaults, definition list, CLI surface,
\* tracked files) is as before the call
C12_DottedGroupRejected ==
    [][ (last'.op = "init" /\ HasSeparator(last'.args.name)) =>
            /\ last'.res[1] = "raise"
            /\ heap' = heap
            /\ objs' = objs ]_vars

\* C13: a lookup of a known key before any strict parse has run, with a
\* command line the parser accepts, returns a value and leaves the parsed
\* flag true
C13_LookupBeforeParse ==
    [][ ( /\ last'.op = "getitem"
          /\ contains(Store, last'.key)
          /\ AllReturned
          /\ ~HasAttr(Store, "parsed")
          /\ ~StrictParseFails(Store, argv) ) =>
            /\ last'.res[1] = "return"
            /\ ParsedOrFalse(heap'[SharedState]) ]_vars

\* the flag of an option of a group other than the default one:
\* "--" + group + "-" + option name
PrefixedFlag(name, option) == DASHES \o name \o <<"-">> \o DropTwo(option)

\* C14: after two registrations of one canonical option, one under the
\* default group and one under another group, both calls have returned, the
\* CLI surface holds the option and the group-prefixed option, and both keys
\* are known
C14_SameOptionTwoGroups ==
    \A i, j \in 1..Len(registered) :
        ( /\ calls = 2
          /\ ~HasAttr(Store, "parsed")
          /\ registered[i].name = DEFAULT
          /\ registered[j].name # DEFAULT
          /\ registered[i].item.options[1] = registered[j].item.options[1] ) =>
            /\ AllReturned
            /\ registered[i].item.options[1] \in Store.option_strings
            /\ PrefixedFlag(registered[j].name, registered[j].item.options[1])
                  \in Store.option_strings
            /\ contains(Store, DefinitionKey(DEFAULT, registered[i].item))
            /\ contains(Store, DefinitionKey(registered[j].name,
                                             registered[j].item))

\* the last call was a strict CLI parse: parse with "cli" among the
\* components and only_known false
StrictParseCalled(call) == call.op = "parse" /\ call.args.strict

\* C15: a strict CLI parse leaves the parsed flag true; the flag changes in
\* no step but a strict parse (explicit, or the implicit one of a lookup),
\* so a lenient parse, a parse without "cli", a reload and a registration
\* leave it as it was; and it never goes from true to false
C15_ParsedByStrictParseOnly ==
    [][ /\ StrictParseCalled(last') => ParsedOrFalse(heap'[SharedState])
        /\ ParsedOrFalse(heap'[SharedState]) # ParsedOrFalse(Store) =>
              /\ ParsedOrFalse(heap'[SharedState])
              /\ StrictParseCalled(last') \/ last'.op \in {"getitem", "get"}
      ]_vars

C15_Witness ==
    /\ StrictParseCalled(last)
    /\ last.res = Return(PyNone)
    /\ CliParsed
    /\ Store.parameters # <<>>

\* the keys some registration declares a default for
DeclaredKeys ==
    {DefinitionKey(registered[i].name, registered[i].item) :
        i \in {j \in 1..Len(registered) : registered[j].item.hasDefault}}

\* the visibility scope of the registration that most recently declared a
\* default for key
DeclaredOnly(key) ==
    registered[CHOOSE i \in Declaring(key) : \A j \in Declaring(key) : j <= i]
        .item.only

\* the registrations of key
RegistrationsOf(key) ==
    {i \in 1..Len(registered) :
        DefinitionKey(registered[i].name, registered[i].item) = key}

\* C16: while registrations are accepted, defaults has exactly the keys a
\* registration declared a default for, each with the default and scope of
\* its most recent declaration; and when a key was registered twice, every
\* call returned and each of its definitions is in the definition list
C16_DefaultsFollowLatestRegistration ==
    ~HasAttr(Store, "parsed") =>
        /\ DOMAIN Store.defaults = DeclaredKeys
        /\ \A key \in DeclaredKeys :
              Store.defaults[key] =
                  PyTuple(DeclaredDefault(key), DeclaredOnly(key))
        /\ \A i \in 1..Len(registered) :
              LET key == DefinitionKey(registered[i].name, registered[i].item)
              IN Cardinality(RegistrationsOf(key)) >= 2 =>
                    /\ AllReturned
                    /\ \E n \in 1..Len(Store.parameters) :
                          Store.parameters[n] =
                              [registered[i].item EXCEPT
                                  !.group = registered[i].name]

\* the entry of path in the tracked files
EntryOf(files, path) == files[CHOOSE i \in 1..Len(files) : files[i].path = path]

\* the entry holds a parser loaded with what was read from its path
Loaded(entry) == entry.handle = HandleParser(entry.read)

\* C17: after a registration that returned, its file_path (None included) is
\* tracked, every tracked real path maps to a loaded parser, and a file_path
\* that was tracked already has not been read again
C17_EveryPathTrackedAndLoaded ==
    [][ (last'.op = "init" /\ last'.res[1] = "return") =>
            LET before == Store.configuration_files
                after  == heap'[SharedState].configuration_files
                path   == last'.args.file_path
            IN /\ path \in Paths(after)
               /\ \A i \in 1..Len(after) :
                     after[i].path # NoPath => Loaded(after[i])
               /\ path \in Paths(before) =>
                     EntryOf(after, path) = EntryOf(before, path) ]_vars

\* C18: reinitialize(path) leaves path tracked with a parser loaded with the
\* file's content on disk and every other entry as it was; reinitialize()
\* loads every tracked file again and tracks the same paths; neither changes
\* anything of the store but the tracked files
C18_ReloadReplacesOnlyThatEntry ==
    [][ last'.op = "reinitialize" =>
            LET before == Store.configuration_files
                after  == heap'[SharedState].configuration_files
                path   == last'.args.file_path
                reloaded == IF path = NoPath THEN Paths(before) ELSE {path}
            IN /\ heap' = [heap EXCEPT ![SharedState].configuration_files = after]
               /\ Paths(after) = Paths(before) \cup reloaded
               /\ \A p \in Paths(after) :
                     IF p \in reloaded
                     THEN EntryOf(after, p).handle
                              = HandleParser(ReadFile(disk, p))
                     ELSE EntryOf(after, p) = EntryOf(before, p) ]_vars

\* what the lookup gives with no configuration file tracked
WithoutFiles(key) ==
    Resolve([Store EXCEPT !.configuration_files = <<>>], key, env, PROG)

\* C19: with a configuration file tracked and the command line parsed, a
\* lookup of a known key that returns with no file tracked returns with the
\* files tracked too; and when no tracked file has the key, it returns what
\* it returns with no file tracked (the environment's value or the default)
C19_FilesNeverFailLookup ==
    ( /\ LookedUp
      /\ CliParsed
      /\ Store.configuration_files # <<>>
      /\ WithoutFiles(last.key)[1] = "return" ) =>
        /\ last.res[1] = "return"
        /\ ~FileSupplies(last.key) => last.res = WithoutFiles(last.key)

\* C20: once the parsed flag is true, a registration raises AssertionError
\* and leaves the store and the objects as they were, and no step changes
\* the known keys
C20_NoRegistrationAfterParse ==
    [][ ParsedOrFalse(Store) =>
            /\ last'.op = "init" =>
                  /\ last'.res = Raise("AssertionError")
                  /\ heap' = heap
                  /\ objs' = objs
            /\ keys(heap'[SharedState]) = keys(Store) ]_vars

C20_Witness ==
    /\ last.op = "init"
    /\ last.res = Raise("AssertionError")
    /\ CliParsed
    /\ DOMAIN Store.defaults # {}
    /\ registered[Len(registered)].item.options[1]
          \notin Store.option_strings

====
